---- MODULE Spec2Model ----
(***************************************************************************)
(* POSTECH GenAI OpenAI bridge (main.py): the File Registry (stored_files  *)
(* and the files under ./tmp), the upload and retrieval handlers, and the  *)
(* chat-completions handler with its backend call and synthetic stream.    *)
(*                                                                         *)
(* Python values are modelled as follows.  An Optional value is a sequence *)
(* of length 0 (None, or a key absent from a JSON object) or 1.  A string  *)
(* that is handed to json.loads is modelled by a record telling what the   *)
(* text decodes to.  uuid.uuid4() is modelled by a counter: every call     *)
(* returns a value no earlier call returned.                               *)
(***************************************************************************)
EXTENDS Integers, Sequences, FiniteSets, TLC

VARIABLES
    stored_files,   \* main.py:53  file_id -> [id, name, path]
    disk,           \* the files under TMP_DIR: path -> [data, closed]
    uuidCount,      \* number of uuid.uuid4() calls made so far
    clock,          \* int(time.time())
    req,            \* slot -> the request being handled in it
    served,         \* number of requests charged to the bound of the behaviour
    uploads         \* history: the stores that completed, [id, name, content]

vars == <<stored_files, disk, uuidCount, clock, req, served, uploads>>

----------------------------------------------------------------------------
(* Bounds *)

MaxServed == 2      \* POST requests accepted one after the other (Spec)
MaxClock == 1       \* seconds the clock may advance (Spec)
MaxSlots == 2       \* requests handled at the same time (SpecConc)
MaxConcServed == 2  \* requests accepted in one behaviour (SpecConc)

Slots == 1..MaxSlots

None == <<>>
Some(x) == <<x>>

\* Line 231: file and file.filename
HasNamedFile(in) == in.file # None /\ in.file[1].filename # ""

----------------------------------------------------------------------------
(* Configuration and model routing *)

TMP_DIR == "./tmp"
PROXY_HOST == "http://localhost:8080"

MODEL_ENDPOINTS ==
    ("postech-gpt" :> "a1/gpt") @@ ("postech-gemini" :> "a2/gemini")
        @@ ("postech-claude" :> "a3/claude")

DEFAULT_MODEL == "postech-gpt"

----------------------------------------------------------------------------
(* Inputs *)

\* The UploadFile objects a client can send to POST /v1/files.
UploadedFiles ==
    {[filename |-> "a.txt", content |-> <<1>>],
     [filename |-> "b.txt", content |-> <<2, 3>>]}

\* The ids a client can ask GET /files/{file_id} for.
RequestedIds == 1..(MaxConcServed + 1)

\* Message items as they arrive: JSON objects with or without the two keys,
\* and a JSON string where an object is expected.
GoodUser == [t |-> "object", role |-> Some("user"), content |-> Some("hi")]
GoodAssistant ==
    [t |-> "object", role |-> Some("assistant"), content |-> Some("yo")]
NoContent == [t |-> "object", role |-> Some("user"), content |-> None]
StringItem == [t |-> "string", role |-> None, content |-> None]

\* JSON values found where the list of messages is expected.
JsonList(items) == [k |-> "list", items |-> items]
JsonNumber == [k |-> "number", items |-> <<>>]
MessagesValues ==
    {JsonList(<<GoodUser, GoodAssistant>>), JsonList(<<GoodUser, NoContent>>),
     JsonList(<<StringItem>>), JsonNumber}

\* Texts found in the multipart field messages: a JSON document, a text
\* that is no JSON, and the empty string.
NotJson == [k |-> "notjson", items |-> <<>>]
EmptyString == [k |-> "emptystring", items |-> <<>>]
MessagesTexts == MessagesValues \cup {NotJson, EmptyString}

\* The file part of a multipart chat request.
AttachedFiles ==
    {[filename |-> "", content |-> <<1>>],
     [filename |-> "a.txt", content |-> <<2, 3>>],
     [filename |-> "b.txt", content |-> <<1>>]}

Multipart == "multipart/form-data; boundary=x"
Json == "application/json"

\* multipart/form-data requests: the form fields model, messages, stream and
\* file; the body is not read.
MultipartRequests ==
    [content_type : {Multipart},
     model : {None, Some(""), Some("postech-gemini"), Some("gpt-4")},
     messages : {None} \cup {Some(t) : t \in MessagesTexts},
     stream : {None, Some("True"), Some("false")},
     file : {None} \cup {Some(f) : f \in AttachedFiles},
     body : {None}]

\* application/json requests: no form field is set; the body is a JSON
\* object with any of the keys model, messages, stream, or is no JSON.
JsonBodies ==
    [model : {None, Some("postech-claude"), Some("gpt-4")},
     messages : {None} \cup {Some(v) : v \in MessagesValues},
     stream : {None, Some(TRUE), Some(FALSE)}]

JsonRequests ==
    [content_type : {Json}, model : {None}, messages : {None},
     stream : {None}, file : {None},
     body : {None} \cup {Some(b) : b \in JsonBodies}]

ChatRequests == MultipartRequests \cup JsonRequests

\* The chat requests that carry a file.
AttachRequests ==
    {r \in MultipartRequests :
        /\ HasNamedFile(r)
        /\ r.stream = None
        /\ r.model = Some("postech-gemini")
        /\ r.messages = Some(JsonList(<<GoodUser, GoodAssistant>>))}

\* What the backend does with one call: the transport fails, or it answers
\* with a status and a body.
BackendOk(replies) ==
    [transport |-> "ok", status |-> 200, body |-> "object", replies |-> replies]
BackendOutcomes ==
    {[transport |-> "ConnectionError", status |-> 0, body |-> "", replies |-> None],
     [transport |-> "Timeout", status |-> 0, body |-> "", replies |-> None],
     [transport |-> "ok", status |-> 503, body |-> "object", replies |-> None],
     [transport |-> "ok", status |-> 200, body |-> "list", replies |-> None],
     [transport |-> "ok", status |-> 200, body |-> "notjson", replies |-> None],
     BackendOk(None), BackendOk(Some("ok")), BackendOk(Some("line1\nline2"))}

FewBackendOutcomes ==
    {o \in BackendOutcomes :
        o.transport = "ConnectionError" \/ o = BackendOk(Some("ok"))}

----------------------------------------------------------------------------
(* uuid and the file system *)

\* Faulty variant of Uuid4: an id taken from the clock, which repeats within
\* one second.
ClockId == clock + 1

\* uuid.uuid4(): a value that no earlier call returned.
Uuid4 == uuidCount + 1

\* TMP_DIR / file_id
FilePath(file_id) == <<TMP_DIR, file_id>>

\* open(file_path, "wb"): creates or truncates the file.
OpenWb(d, path) ==
    [p \in DOMAIN d \cup {path} |->
        IF p = path THEN [data |-> <<>>, closed |-> FALSE] ELSE d[p]]

\* f.write(content)
WriteAll(d, path, content) ==
    [d EXCEPT ![path] = [data |-> d[path].data \o content, closed |-> FALSE]]

\* leaving the with block closes the file
CloseFile(d, path) == [d EXCEPT ![path].closed = TRUE]

\* Faulty variant of RegistryInsert: the dictionary is replaced by one that
\* holds the new record alone.
RegistryInsertRebinds(reg, file_id, name, path) ==
    [i \in {file_id} |-> [id |-> file_id, name |-> name, path |-> path]]

\* stored_files[file_id] = {"id": ..., "name": ..., "path": ...}
RegistryInsert(reg, file_id, name, path) ==
    [i \in DOMAIN reg \cup {file_id} |->
        IF i = file_id THEN [id |-> file_id, name |-> name, path |-> path]
        ELSE reg[i]]

Idle == [kind |-> "idle", pc |-> "idle"]

----------------------------------------------------------------------------
(* Pure helpers of the chat-completions handler *)

\* Truth value of an Optional[str] form field: None and "" are falsy.
Truthy(field) == field # None /\ field[1] # ""
TruthyText(field) == field # None /\ field[1].k # "emptystring"

\* str.lower() and str.upper() on the strings that occur.
Lower(str) == IF str = "True" THEN "true" ELSE str
Upper(str) ==
    CASE str = "user" -> "USER"
      [] str = "assistant" -> "ASSISTANT"
      [] OTHER -> str

\* json.loads(text)
JsonLoads(text) ==
    IF text.k \in {"notjson", "emptystring"}
    THEN [exc |-> "JSONDecodeError", value |-> JsonNumber]
    ELSE [exc |-> "none", value |-> text]

\* Message(**m): a TypeError when m is no mapping, a pydantic
\* ValidationError when a required field is missing.
NoMessage == [role |-> "", content |-> ""]
MessageOf(m) ==
    IF m.t # "object" THEN [exc |-> "TypeError", msg |-> NoMessage]
    ELSE IF m.role = None \/ m.content = None
         THEN [exc |-> "ValidationError", msg |-> NoMessage]
         ELSE [exc |-> "none",
               msg |-> [role |-> m.role[1], content |-> m.content[1]]]

\* [Message(**m) for m in value]: the first exception stops the loop.
Messages(value) ==
    IF value.k # "list" THEN [exc |-> "TypeError", msgs |-> <<>>]
    ELSE LET items == value.items
             bad == {i \in 1..Len(items) : MessageOf(items[i]).exc # "none"}
             first == CHOOSE i \in bad : \A j \in bad : i <= j
         IN IF bad = {}
            THEN [exc |-> "none",
                  msgs |-> [i \in 1..Len(items) |-> MessageOf(items[i]).msg]]
            ELSE [exc |-> MessageOf(items[first]).exc, msgs |-> <<>>]

\* raise HTTPException(status_code, detail)
HttpError(status, detail) ==
    [status |-> status, detail |-> detail, model |-> "",
     parsed_messages |-> <<>>, is_stream |-> FALSE]

\* An exception no handler catches: the server answers 500.
Unhandled(exc) == HttpError(500, <<"Internal Server Error">>)

Parsed(model, msgs, is_stream) ==
    [status |-> 0, detail |-> <<>>, model |-> model,
     parsed_messages |-> msgs, is_stream |-> is_stream]

\* Lines 205-214, the multipart branch.
ParseMultipart(in) ==
    IF ~TruthyText(in.messages)
    THEN HttpError(400, <<"messages field is required">>)
    ELSE LET loaded == JsonLoads(in.messages[1])
             built == Messages(loaded.value)
         IN IF loaded.exc # "none"
            THEN HttpError(400, <<"Invalid messages format: ", loaded.exc>>)
            ELSE IF built.exc = "TypeError"
            THEN HttpError(400, <<"Invalid messages format: ", built.exc>>)
            ELSE IF built.exc # "none"
            THEN Unhandled(built.exc)
            ELSE Parsed(IF Truthy(in.model) THEN in.model[1] ELSE DEFAULT_MODEL,
                        built.msgs,
                        Truthy(in.stream) /\ Lower(in.stream[1]) = "true")

\* Lines 215-220, the JSON branch.
ParseJson(in) ==
    IF in.body = None
    THEN Unhandled("JSONDecodeError")
    ELSE LET body == in.body[1]
             built == IF body.messages = None
                      THEN Messages(JsonList(<<>>))
                      ELSE Messages(body.messages[1])
         IN IF built.exc # "none"
            THEN Unhandled(built.exc)
            ELSE Parsed(IF body.model = None THEN DEFAULT_MODEL
                                             ELSE body.model[1],
                        built.msgs,
                        IF body.stream = None THEN FALSE ELSE body.stream[1])

\* Lines 222-227: an unknown model is rejected.
ValidateModel(p) ==
    IF p.status = 0 /\ p.model \notin DOMAIN MODEL_ENDPOINTS
    THEN HttpError(400, <<"Invalid model: ", p.model>>)
    ELSE p

\* Lines 201-227: content type detection, parsing, model validation.
ParseRequest(in) ==
    ValidateModel(IF in.content_type = Multipart THEN ParseMultipart(in)
                                                 ELSE ParseJson(in))

\* convert_messages_to_prompt: "ROLE: content" lines joined by "\n".
RECURSIVE JoinLines(_)
JoinLines(lines) ==
    IF lines = <<>> THEN <<>>
    ELSE IF Len(lines) = 1 THEN lines[1]
    ELSE lines[1] \o <<"\n">> \o JoinLines(Tail(lines))

convert_messages_to_prompt(messages) ==
    JoinLines([i \in 1..Len(messages) |->
                <<Upper(messages[i].role), ": ", messages[i].content>>])

\* Lines 143-147: the FileInfo sent to the backend.
FileInfo(file_id, filename) ==
    [id |-> file_id, name |-> IF filename = "" THEN "file" ELSE filename,
     url |-> <<PROXY_HOST, "/files/", file_id>>]

\* Faulty variant of BackendRequest: the backend is asked to stream.
PayloadStreamTrue(endpoint, prompt, files) ==
    [url |-> <<"POSTECH_BASE_URL", "/", endpoint>>,
     json |-> [message |-> prompt, stream |-> TRUE, files |-> files]]

\* Lines 108-114: the request sent to the backend.
BackendRequest(endpoint, prompt, files) ==
    [url |-> <<"POSTECH_BASE_URL", "/", endpoint>>,
     json |-> [message |-> prompt, stream |-> FALSE, files |-> files]]

\* Lines 121-125: requests.post, raise_for_status, response.json(),
\* data.get("replies", "").  requests raises its own JSONDecodeError, a
\* RequestException, for a body that is no JSON; a JSON list has no get.
call_postech_api(outcome) ==
    IF outcome.transport # "ok"
    THEN [exc |-> outcome.transport, reply |-> ""]
    ELSE IF outcome.status \notin 200..299
    THEN [exc |-> "HTTPError", reply |-> ""]
    ELSE IF outcome.body = "notjson"
    THEN [exc |-> "requests.JSONDecodeError", reply |-> ""]
    ELSE IF outcome.body # "object"
    THEN [exc |-> "AttributeError", reply |-> ""]
    ELSE [exc |-> "none",
          reply |-> IF outcome.replies = None THEN "" ELSE outcome.replies[1]]

\* Faulty variant of RequestExceptions: only ConnectionError is caught.
RequestExceptionsOnlyConnection == {"ConnectionError"}

\* The exceptions line 241 catches: requests.RequestException and its
\* subclasses.
RequestExceptions ==
    {"ConnectionError", "Timeout", "HTTPError", "requests.JSONDecodeError"}

\* Faulty variant of Completion: the content is left empty.
CompletionWithoutReply(completion_id, model, reply) ==
    [id |-> completion_id, object |-> "chat.completion", created |-> clock,
     model |-> model,
     choices |-> <<[index |-> 0,
                    message |-> [role |-> "assistant", content |-> ""],
                    finish_reason |-> "stop"]>>]

\* Lines 258-273: the non-streaming completion object.
Completion(completion_id, model, reply) ==
    [id |-> completion_id, object |-> "chat.completion", created |-> clock,
     model |-> model,
     choices |-> <<[index |-> 0,
                    message |-> [role |-> "assistant", content |-> reply],
                    finish_reason |-> "stop"]>>]

\* Lines 155-171, 174-187, 190: the three frames of the stream.
Chunk(completion_id, created, model, delta, finish_reason) ==
    [id |-> completion_id, object |-> "chat.completion.chunk",
     created |-> created, model |-> model,
     choices |-> <<[index |-> 0, delta |-> delta,
                    finish_reason |-> finish_reason]>>]

SseJson(chunk) ==
    [prefix |-> "data: ", json |-> Some(chunk), text |-> "", suffix |-> "\n\n"]

ContentFrame(completion_id, created, model, reply) ==
    SseJson(Chunk(completion_id, created, model,
                  [role |-> Some("assistant"), content |-> Some(reply)], None))

\* Faulty variant of FinishFrame: the timestamp is read again.
FinishFrameNewTimestamp(completion_id, created, model) ==
    SseJson(Chunk(completion_id, clock, model,
                  [role |-> None, content |-> None], Some("stop")))

FinishFrame(completion_id, created, model) ==
    SseJson(Chunk(completion_id, created, model,
                  [role |-> None, content |-> None], Some("stop")))

DoneFrame ==
    [prefix |-> "data: ", json |-> None, text |-> "[DONE]", suffix |-> "\n\n"]

----------------------------------------------------------------------------
(* POST /v1/files: upload_file *)

\* Faulty variant of UploadOpen: the record is inserted as soon as the id
\* is known, before the file is written.
UploadOpenInsertFirst(s, file) ==
    /\ req[s].pc = "idle"
    /\ uuidCount' = uuidCount + 1
    /\ disk' = OpenWb(disk, FilePath(Uuid4))
    /\ stored_files' = RegistryInsert(stored_files, Uuid4, file.filename,
                                      FilePath(Uuid4))
    /\ req' = [req EXCEPT ![s] =
                [kind |-> "upload", pc |-> "write", file |-> file,
                 file_id |-> Uuid4, file_path |-> FilePath(Uuid4)]]
    /\ UNCHANGED <<clock, uploads>>

\* Lines 67-70: a fresh id, and the file opened for writing.
UploadOpen(s, file) ==
    /\ req[s].pc = "idle"
    /\ uuidCount' = uuidCount + 1
    /\ disk' = OpenWb(disk, FilePath(Uuid4))
    /\ req' = [req EXCEPT ![s] =
                [kind |-> "upload", pc |-> "write", file |-> file,
                 file_id |-> Uuid4, file_path |-> FilePath(Uuid4)]]
    /\ UNCHANGED <<stored_files, clock, uploads>>

\* Lines 71-72: content = await file.read(); f.write(content)
UploadWrite(s) ==
    /\ req[s].kind = "upload" /\ req[s].pc = "write"
    /\ disk' = WriteAll(disk, req[s].file_path, req[s].file.content)
    /\ req' = [req EXCEPT ![s].pc = "close"]
    /\ UNCHANGED <<stored_files, uuidCount, clock, served, uploads>>

\* End of the with block of line 70.
UploadClose(s) ==
    /\ req[s].kind = "upload" /\ req[s].pc = "close"
    /\ disk' = CloseFile(disk, req[s].file_path)
    /\ req' = [req EXCEPT ![s].pc = "insert"]
    /\ UNCHANGED <<stored_files, uuidCount, clock, served, uploads>>

\* Lines 74-84: the record is inserted and {id, name, url} returned.
UploadInsert(s) ==
    /\ req[s].kind = "upload" /\ req[s].pc = "insert"
    /\ stored_files' = RegistryInsert(stored_files, req[s].file_id,
                                      req[s].file.filename, req[s].file_path)
    /\ uploads' = uploads \cup
            {[id |-> req[s].file_id, name |-> req[s].file.filename,
              content |-> req[s].file.content, via |-> "upload_file"]}
    /\ req' = [req EXCEPT ![s] =
                [kind |-> "upload", pc |-> "done", file |-> req[s].file,
                 file_id |-> req[s].file_id, file_path |-> req[s].file_path,
                 status |-> 200,
                 response |-> [id |-> req[s].file_id,
                               name |-> req[s].file.filename,
                               url |-> <<PROXY_HOST, "/files/", req[s].file_id>>]]]
    /\ UNCHANGED <<disk, uuidCount, clock, served>>

----------------------------------------------------------------------------
(* GET /files/{file_id}: get_file *)

\* Lines 89-92: 404 for an id that is not in stored_files, else its record.
GetLookup(s, file_id) ==
    /\ req[s].pc = "idle"
    /\ req' = [req EXCEPT ![s] =
                IF file_id \notin DOMAIN stored_files
                THEN [kind |-> "get", pc |-> "done", file_id |-> file_id,
                      status |-> 404, detail |-> "File not found"]
                ELSE [kind |-> "get", pc |-> "send", file_id |-> file_id,
                      file_info |-> stored_files[file_id]]]
    /\ UNCHANGED <<stored_files, disk, uuidCount, clock, uploads>>

\* What FileResponse(path, filename) sends: the bytes found at path, under
\* the stored name.  A path with no file behind it is a server error.
FileResponse(path, filename) ==
    IF path \in DOMAIN disk
    THEN [status |-> 200, body |-> disk[path].data, filename |-> filename]
    ELSE [status |-> 500, body |-> <<>>, filename |-> filename]

\* Lines 93-96: the response is built from the record and sent.
GetSend(s) ==
    /\ req[s].kind = "get" /\ req[s].pc = "send"
    /\ LET r == FileResponse(req[s].file_info.path, req[s].file_info.name)
       IN req' = [req EXCEPT ![s] =
                    [kind |-> "get", pc |-> "done", file_id |-> req[s].file_id,
                     status |-> r.status, body |-> r.body,
                     filename |-> r.filename]]
    /\ UNCHANGED <<stored_files, disk, uuidCount, clock, served, uploads>>

\* get_file as one call on the current state.
GetFile(file_id) ==
    IF file_id \notin DOMAIN stored_files
    THEN [status |-> 404, body |-> <<>>, filename |-> ""]
    ELSE FileResponse(stored_files[file_id].path, stored_files[file_id].name)

----------------------------------------------------------------------------
(* POST /v1/chat/completions: chat_completions *)

\* The locals of one call of chat_completions, and the answer it gives;
\* before is stored_files as the request found it.
ChatRecord(in, p, pc) ==
    [kind |-> "chat", pc |-> pc, in |-> in, before |-> stored_files,
     model |-> p.model, parsed_messages |-> p.parsed_messages,
     is_stream |-> p.is_stream, files_for_api |-> <<>>,
     file_id |-> 0, file_path |-> <<>>, sent |-> None, outcome |-> None,
     reply |-> None, completion_id |-> <<>>, status |-> p.status,
     detail |-> p.detail, body |-> None, created |-> 0, frames |-> <<>>]

\* Faulty variant of ChatParse: the attached file is stored before the
\* model is validated.
ChatParseSaveFirst(s, in) ==
    /\ req[s].pc = "idle"
    /\ LET p == ParseRequest(in)
           q == IF in.content_type = Multipart THEN ParseMultipart(in)
                                               ELSE ParseJson(in)
           save == HasNamedFile(in) /\ q.status = 0
       IN /\ req' = [req EXCEPT ![s] =
                      ChatRecord(in, p, IF p.status # 0 THEN "done" ELSE "call")]
          /\ uuidCount' = IF save THEN uuidCount + 1 ELSE uuidCount
          /\ disk' = IF save
                     THEN CloseFile(WriteAll(OpenWb(disk, FilePath(Uuid4)),
                                             FilePath(Uuid4),
                                             in.file[1].content),
                                    FilePath(Uuid4))
                     ELSE disk
          /\ stored_files' = IF save
                             THEN RegistryInsert(stored_files, Uuid4,
                                                 in.file[1].filename,
                                                 FilePath(Uuid4))
                             ELSE stored_files
    /\ UNCHANGED <<clock, uploads>>

\* Lines 201-231: the request is parsed and validated; it is answered at
\* once when that fails, and goes on to the file or to the backend.
ChatParse(s, in) ==
    /\ req[s].pc = "idle"
    /\ LET p == ParseRequest(in)
       IN req' = [req EXCEPT ![s] =
                    ChatRecord(in, p,
                               IF p.status # 0 THEN "done"
                               ELSE IF HasNamedFile(in) THEN "save"
                               ELSE "call")]
    /\ UNCHANGED <<stored_files, disk, uuidCount, clock, uploads>>

\* save_uploaded_file, lines 130-133: a fresh id, the file opened.
ChatSaveOpen(s) ==
    /\ req[s].kind = "chat" /\ req[s].pc = "save"
    /\ uuidCount' = uuidCount + 1
    /\ disk' = OpenWb(disk, FilePath(Uuid4))
    /\ req' = [req EXCEPT ![s].pc = "write", ![s].file_id = Uuid4,
                          ![s].file_path = FilePath(Uuid4)]
    /\ UNCHANGED <<stored_files, clock, served, uploads>>

\* Lines 134-135: content = await file.read(); f.write(content)
ChatSaveWrite(s) ==
    /\ req[s].kind = "chat" /\ req[s].pc = "write"
    /\ disk' = WriteAll(disk, req[s].file_path, req[s].in.file[1].content)
    /\ req' = [req EXCEPT ![s].pc = "close"]
    /\ UNCHANGED <<stored_files, uuidCount, clock, served, uploads>>

\* End of the with block of line 133.
ChatSaveClose(s) ==
    /\ req[s].kind = "chat" /\ req[s].pc = "close"
    /\ disk' = CloseFile(disk, req[s].file_path)
    /\ req' = [req EXCEPT ![s].pc = "insert"]
    /\ UNCHANGED <<stored_files, uuidCount, clock, served, uploads>>

\* Lines 137-147 and 233: the record is inserted, the FileInfo appended.
ChatSaveInsert(s) ==
    /\ req[s].kind = "chat" /\ req[s].pc = "insert"
    /\ stored_files' = RegistryInsert(stored_files, req[s].file_id,
                                      req[s].in.file[1].filename,
                                      req[s].file_path)
    /\ uploads' = uploads \cup
            {[id |-> req[s].file_id, name |-> req[s].in.file[1].filename,
              content |-> req[s].in.file[1].content,
              via |-> "save_uploaded_file"]}
    /\ req' = [req EXCEPT
                ![s].pc = "call",
                ![s].files_for_api =
                    Append(@, FileInfo(req[s].file_id,
                                       req[s].in.file[1].filename))]
    /\ UNCHANGED <<disk, uuidCount, clock, served>>

\* Lines 235-240 and 108-121: endpoint, prompt, and the request posted.
ChatCall(s) ==
    /\ req[s].kind = "chat" /\ req[s].pc = "call"
    /\ req' = [req EXCEPT
                ![s].pc = "wait",
                ![s].sent =
                    Some(BackendRequest(
                            MODEL_ENDPOINTS[req[s].model],
                            convert_messages_to_prompt(req[s].parsed_messages),
                            req[s].files_for_api))]
    /\ UNCHANGED <<stored_files, disk, uuidCount, clock, served, uploads>>

\* Lines 121-125 and 241-273: the backend call ends; a RequestException
\* becomes a 502, a reply becomes the completion or the streaming response.
ChatBackendReturn(s, outcome) ==
    /\ req[s].kind = "chat" /\ req[s].pc = "wait"
    /\ LET r == call_postech_api(outcome)
           completion_id == <<"chatcmpl-", Uuid4>>
       IN IF r.exc \in RequestExceptions
          THEN /\ req' = [req EXCEPT
                            ![s].pc = "done", ![s].outcome = Some(outcome),
                            ![s].status = 502,
                            ![s].detail = <<"POSTECH API error: ", r.exc>>]
               /\ UNCHANGED uuidCount
          ELSE IF r.exc # "none"
          THEN /\ req' = [req EXCEPT
                            ![s].pc = "done", ![s].outcome = Some(outcome),
                            ![s].status = 500,
                            ![s].detail = <<"Internal Server Error">>]
               /\ UNCHANGED uuidCount
          ELSE /\ uuidCount' = uuidCount + 1
               /\ req' = [req EXCEPT
                            ![s].outcome = Some(outcome),
                            ![s].reply = Some(r.reply),
                            ![s].completion_id = completion_id,
                            ![s].status = 200,
                            ![s].pc = IF req[s].is_stream THEN "frame1"
                                                          ELSE "done",
                            ![s].body =
                                IF req[s].is_stream THEN None
                                ELSE Some(Completion(completion_id,
                                                     req[s].model, r.reply))]
    /\ UNCHANGED <<stored_files, disk, clock, served, uploads>>

\* generate_stream_response, lines 152-171: the timestamp is taken and the
\* content frame produced.
ChatFrame1(s) ==
    /\ req[s].kind = "chat" /\ req[s].pc = "frame1"
    /\ req' = [req EXCEPT
                ![s].pc = "frame2", ![s].created = clock,
                ![s].frames =
                    <<ContentFrame(req[s].completion_id, clock, req[s].model,
                                   req[s].reply[1])>>]
    /\ UNCHANGED <<stored_files, disk, uuidCount, clock, served, uploads>>

\* Lines 174-187: the finish frame.
ChatFrame2(s) ==
    /\ req[s].kind = "chat" /\ req[s].pc = "frame2"
    /\ req' = [req EXCEPT
                ![s].pc = "frame3",
                ![s].frames =
                    Append(@, FinishFrame(req[s].completion_id,
                                          req[s].created, req[s].model))]
    /\ UNCHANGED <<stored_files, disk, uuidCount, clock, served, uploads>>

\* Line 190: the end-of-stream marker.
ChatFrame3(s) ==
    /\ req[s].kind = "chat" /\ req[s].pc = "frame3"
    /\ req' = [req EXCEPT ![s].pc = "done",
                          ![s].frames = Append(@, DoneFrame)]
    /\ UNCHANGED <<stored_files, disk, uuidCount, clock, served, uploads>>

\* time.time() moves on.
Tick ==
    /\ clock < MaxClock
    /\ clock' = clock + 1
    /\ UNCHANGED <<stored_files, disk, uuidCount, req, served, uploads>>

\* The response has been delivered; the handler's locals are gone.
Release(s) ==
    /\ req[s].pc = "done"
    /\ req' = [req EXCEPT ![s] = Idle]
    /\ UNCHANGED <<stored_files, disk, uuidCount, clock, served, uploads>>

----------------------------------------------------------------------------
(* Specifications *)

Init ==
    /\ stored_files = <<>>
    /\ disk = <<>>
    /\ uuidCount = 0
    /\ clock = 0
    /\ req = [s \in Slots |-> Idle]
    /\ served = 0
    /\ uploads = {}

\* The next step of a handler that is on its way through the registry.
FileStep(s) ==
    \/ UploadWrite(s)
    \/ UploadClose(s)
    \/ UploadInsert(s)
    \/ GetSend(s)
    \/ ChatSaveOpen(s)
    \/ ChatSaveWrite(s)
    \/ ChatSaveClose(s)
    \/ ChatSaveInsert(s)
    \/ ChatCall(s)
    \/ Release(s)

\* The next frame of a streaming response.
StreamStep(s) ==
    \/ ChatFrame1(s)
    \/ ChatFrame2(s)
    \/ ChatFrame3(s)

\* One request at a time, of every shape, while the clock runs.  Lookups
\* leave nothing behind and are not charged to the bound.
Next ==
    \/ /\ served < MaxServed
       /\ served' = served + 1
       /\ \/ \E file \in UploadedFiles : UploadOpen(1, file)
          \/ \E in \in ChatRequests : ChatParse(1, in)
    \/ /\ \E file_id \in RequestedIds : GetLookup(1, file_id)
       /\ UNCHANGED served
    \/ \E outcome \in BackendOutcomes : ChatBackendReturn(1, outcome)
    \/ FileStep(1)
    \/ StreamStep(1)
    \/ Tick

Spec == Init /\ [][Next]_vars

\* Requests handled at the same time in every interleaving of their steps.
\* A request is taken by the first idle slot: which slot takes it is of no
\* consequence.
NextConc ==
    \/ /\ served < MaxConcServed
       /\ served' = served + 1
       /\ \E s \in Slots :
            /\ \A t \in 1..(s - 1) : req[t].pc # "idle"
            /\ \/ \E file \in UploadedFiles : UploadOpen(s, file)
               \/ \E in \in AttachRequests : ChatParse(s, in)
               \/ \E file_id \in RequestedIds : GetLookup(s, file_id)
    \/ \E s \in Slots, outcome \in FewBackendOutcomes :
            ChatBackendReturn(s, outcome)
    \/ \E s \in Slots : FileStep(s)

SpecConc == Init /\ [][NextConc]_vars

----------------------------------------------------------------------------
(* Properties of one chat-completions request (checked under Spec) *)

Chats == {s \in Slots : req[s].kind = "chat"}

\* The model a request names: the form field or the key of the JSON body.
SubmittedModel(in) ==
    IF in.content_type = Multipart THEN in.model
    ELSE IF in.body = None THEN None ELSE in.body[1].model

\* The messages a request carries, as a JSON value, when it carries any.
SubmittedMessages(in) ==
    IF in.content_type = Multipart
    THEN IF in.messages = None \/ JsonLoads(in.messages[1]).exc # "none"
         THEN None ELSE in.messages
    ELSE IF in.body = None THEN None ELSE in.body[1].messages

\* A JSON list whose items all are objects with a role and a content.
RoleContentList(v) ==
    /\ v.k = "list"
    /\ \A i \in 1..Len(v.items) :
        /\ v.items[i].t = "object"
        /\ v.items[i].role # None
        /\ v.items[i].content # None

\* The request names a model, and the table has no such key.  An empty
\* form field names no model: line 213 treats it as an absent one.
UnknownModel(in) ==
    /\ SubmittedModel(in) # None
    /\ SubmittedModel(in)[1] # ""
    /\ SubmittedModel(in)[1] \notin DOMAIN MODEL_ENDPOINTS

\* The messages are missing, are no JSON, or are no list of role/content
\* pairs.
BadMessages(in) ==
    \/ SubmittedMessages(in) = None
    \/ ~RoleContentList(SubmittedMessages(in)[1])

\* C1: a request whose model is not a key of the logical-model table is
\* answered with 400, and the backend is never called while it is handled.
C1_UnknownModelRejected ==
    \A s \in Chats :
        UnknownModel(req[s].in) =>
            /\ req[s].sent = None
            /\ req[s].pc = "done" => req[s].status = 400

\* C7: a request whose messages are missing or malformed is answered with
\* 400 and a reason, in the multipart and in the JSON shape.
C7_BadMessagesRejected ==
    \A s \in Chats :
        (req[s].pc = "done" /\ BadMessages(req[s].in)) =>
            /\ req[s].status = 400
            /\ req[s].detail # <<>>

\* The content of the first choice of a completion object.
Content(body) == body.choices[1].message.content

\* The request names (or defaults to) a model of the table and carries a
\* list of role/content pairs.
ValidChat(in) ==
    /\ ~UnknownModel(in)
    /\ ~(in.content_type = Json /\ in.body = None)
    /\ ~BadMessages(in)

\* C2: a valid request for a model of the table reaches the backend, and
\* when the Backend Client returns a reply the non-streaming answer is 200
\* with choices[0].message.content equal to that reply.
C2_ReplyVerbatim ==
    \A s \in Chats :
        ValidChat(req[s].in) =>
            /\ req[s].status \notin {400, 404}
            /\ (req[s].outcome # None
                /\ call_postech_api(req[s].outcome[1]).exc = "none"
                /\ ~req[s].is_stream) =>
                    /\ req[s].pc = "done"
                    /\ req[s].status = 200
                    /\ req[s].body # None
                    /\ Content(req[s].body[1]) =
                            call_postech_api(req[s].outcome[1]).reply

C2_Witness ==
    \E s \in Chats :
        /\ ValidChat(req[s].in)
        /\ req[s].pc = "done" /\ req[s].status = 200 /\ ~req[s].is_stream
        /\ req[s].outcome = Some(BackendOk(Some("line1\nline2")))
        /\ Content(req[s].body[1]) = "line1\nline2"

\* The content delta of a frame; "" when the frame carries none.
DeltaContent(frame) ==
    IF frame.json = None THEN ""
    ELSE IF frame.json[1].choices[1].delta.content = None THEN ""
    ELSE frame.json[1].choices[1].delta.content[1]

RECURSIVE ConcatDeltas(_)
ConcatDeltas(frames) ==
    IF frames = <<>> THEN ""
    ELSE DeltaContent(Head(frames)) \o ConcatDeltas(Tail(frames))

\* The reply the backend gave to the request in slot s.
BackendReply(s) == call_postech_api(req[s].outcome[1]).reply

IsContentFrame(frame, reply) ==
    /\ frame.prefix = "data: " /\ frame.suffix = "\n\n" /\ frame.json # None
    /\ frame.json[1].choices[1].delta =
            [role |-> Some("assistant"), content |-> Some(reply)]
    /\ frame.json[1].choices[1].finish_reason = None

IsFinishFrame(frame) ==
    /\ frame.prefix = "data: " /\ frame.suffix = "\n\n" /\ frame.json # None
    /\ frame.json[1].choices[1].delta = [role |-> None, content |-> None]
    /\ frame.json[1].choices[1].finish_reason = Some("stop")

IsDoneFrame(frame) ==
    /\ frame.json = None
    /\ frame.prefix \o frame.text \o frame.suffix = "data: [DONE]\n\n"

\* C3: a finished stream is exactly three frames: the content delta with
\* the whole reply, the finish frame, the [DONE] marker; the two JSON
\* frames carry the same id and the same timestamp, and the content deltas
\* concatenate to the reply.  While the stream runs the frames produced so
\* far are a prefix of these.
C3_ThreeFrames ==
    \A s \in Chats :
        LET f == req[s].frames
        IN /\ Len(f) <= 3
           /\ Len(f) >= 1 => IsContentFrame(f[1], BackendReply(s))
           /\ Len(f) >= 2 =>
                /\ IsFinishFrame(f[2])
                /\ f[2].json[1].id = f[1].json[1].id
                /\ f[2].json[1].created = f[1].json[1].created
           /\ Len(f) >= 3 => IsDoneFrame(f[3])
           /\ (req[s].pc = "done" /\ req[s].status = 200 /\ req[s].is_stream) =>
                /\ Len(f) = 3
                /\ ConcatDeltas(f) = BackendReply(s)

C3_Witness ==
    \E s \in Chats :
        /\ req[s].pc = "done" /\ req[s].is_stream /\ Len(req[s].frames) = 3
        /\ ConcatDeltas(req[s].frames) = "ok"
        /\ req[s].frames[1].json[1].created < clock

\* The backend call failed: no connection, a timeout, or a status that is
\* not 2xx.
BackendFailed(outcome) ==
    \/ outcome.transport \in {"ConnectionError", "Timeout"}
    \/ outcome.transport = "ok" /\ outcome.status \notin 200..299

C8_BufferedBackendCall ==
    \A s \in Chats :
        /\ req[s].sent # None => req[s].sent[1].json.stream = FALSE
        /\ req[s].outcome # None => req[s].sent # None
        /\ req[s].frames # <<>> =>
                /\ req[s].outcome # None
                /\ call_postech_api(req[s].outcome[1]).exc = "none"
        /\ (req[s].outcome # None
            /\ call_postech_api(req[s].outcome[1]).exc # "none") =>
                req[s].frames = <<>> /\ req[s].pc = "done"

C8_Witness ==
    \E s \in Chats :
        /\ req[s].is_stream /\ Len(req[s].frames) >= 1
        /\ req[s].sent # None /\ req[s].sent[1].json.stream = FALSE

\* C9: a chat request answered with 400 leaves stored_files as it found it,
\* attached file or not; a chat request adds at most one record, and only
\* for an attached file with a non-empty name; it changes no record.
C9_RejectedRequestStoresNothing ==
    \A s \in Chats :
        /\ req[s].status = 400 => stored_files = req[s].before
        /\ Cardinality(DOMAIN stored_files \ DOMAIN req[s].before) <= 1
        /\ stored_files # req[s].before => HasNamedFile(req[s].in)
        /\ \A i \in DOMAIN req[s].before : stored_files[i] = req[s].before[i]

C9_Witness ==
    \E s \in Chats :
        /\ req[s].status = 400
        /\ HasNamedFile(req[s].in)
        /\ UnknownModel(req[s].in)
        /\ req[s].before # <<>>

----------------------------------------------------------------------------
(* Properties of the File Registry (checked under SpecConc) *)

\* The slots whose handler holds a file id it has not yet inserted.
Storing ==
    {s \in Slots : /\ req[s].kind \in {"upload", "chat"}
                   /\ req[s].pc \in {"write", "close", "insert"}}

StoredIds == {u.id : u \in uploads}

\* What GET /files/{id} has to answer for the completed store u.
Original(u) == [status |-> 200, body |-> u.content, filename |-> u.name]

\* C4: once a store has completed, GET /files/{id} answers with the bytes
\* and the name of that store in every later state; an id that no completed
\* store produced is answered with 404; and every answer get_file gave is
\* one of the two.
C4_RoundTrip ==
    /\ \A u \in uploads : GetFile(u.id) = Original(u)
    /\ \A id \in RequestedIds \ StoredIds : GetFile(id).status = 404
    /\ \A s \in Slots :
        (req[s].kind = "get" /\ req[s].pc = "done") =>
            \/ req[s].status = 404
            \/ \E u \in uploads :
                /\ u.id = req[s].file_id
                /\ [status |-> req[s].status, body |-> req[s].body,
                    filename |-> req[s].filename] = Original(u)

C4_Witness ==
    /\ Cardinality(uploads) >= 2
    /\ \E s \in Slots :
        /\ req[s].kind = "get" /\ req[s].pc = "done" /\ req[s].status = 200
        /\ req[s].body = <<2, 3>>
        /\ \E u \in uploads : u.id > req[s].file_id

\* C5: the ids of any two stores differ, be they completed or under way,
\* through upload_file or through a chat attachment, and each completed
\* store is retrieved with its own bytes and name.
C5_NoCollision ==
    /\ \A u, v \in uploads : u.id = v.id => u = v
    /\ \A s, t \in Storing : req[s].file_id = req[t].file_id => s = t
    /\ \A s \in Storing : req[s].file_id \notin StoredIds
    /\ \A u \in uploads :
        /\ GetFile(u.id).body = u.content
        /\ GetFile(u.id).filename = u.name

C5_Witness ==
    \E u \in uploads, s \in Storing :
        /\ u.via = "upload_file"
        /\ GetFile(u.id) = Original(u)
        /\ req[s].kind = "chat" /\ req[s].pc = "insert"
        /\ req[s].file_id < u.id
        /\ req[s].in.file[1].content # u.content

\* C10: an id is in stored_files only when its file is written and closed;
\* while a store is under way its id is answered with 404, and get_file
\* never sends a file that is open or short of its content.
C10_InsertAfterClose ==
    /\ \A id \in DOMAIN stored_files :
        /\ stored_files[id].path \in DOMAIN disk
        /\ disk[stored_files[id].path].closed
        /\ \E u \in uploads :
            u.id = id /\ disk[stored_files[id].path].data = u.content
    /\ \A s \in Storing : GetFile(req[s].file_id).status = 404
    /\ \A s \in Slots :
        (req[s].kind = "get" /\ req[s].pc = "send") =>
            /\ req[s].file_info.path \in DOMAIN disk
            /\ disk[req[s].file_info.path].closed

C10_Witness ==
    \E s, t \in Slots :
        /\ req[s].kind = "upload" /\ req[s].pc = "close"
        /\ req[t].kind = "get" /\ req[t].pc = "done"
        /\ req[t].file_id = req[s].file_id /\ req[t].status = 404

====
